---- MODULE Spec2Model ----
(***************************************************************************)
(* Model of cannonade (src/cannonade.go): the schedule loop of main, the   *)
(* stage runner runTask, the worker goroutines cannonade with the two      *)
(* buffered channels of each stage, and the report of printStats.          *)
(*                                                                         *)
(* Strings are sequences of one-character strings, so that Split, Atoi     *)
(* and the "%d@%d" formatting are computed as the library computes them.   *)
(* A panic in any goroutine ends the process: pc = "panic" and nothing     *)
(* moves afterwards.  The return of main ends it too: pc = "exit".         *)
(***************************************************************************)
EXTENDS Integers, Sequences, FiniteSets, TLC

\* ---------------------------------------------------------------- bounds
MaxReq == 2          \* most requests of a schedule, all milestones together
MaxClients == 2      \* most clients of a schedule, all milestones together
MaxStages == 2       \* most milestones of a schedule
MaxSamples == 3      \* most latencies handed to printStats
MaxLatency == 3      \* longest latency handed to printStats, in milliseconds
MaxFails == 2        \* most failures handed to printStats

\* ------------------------------------------------- strings and parsing
DigitChars == <<"0", "1", "2", "3", "4", "5", "6", "7", "8", "9">>

IsDigit(ch) == \E d \in 1..10 : DigitChars[d] = ch

DigitVal(ch) == (CHOOSE d \in 1..10 : DigitChars[d] = ch) - 1

RECURSIVE Itoa(_)
Itoa(n) ==
  IF n < 0 THEN <<"-">> \o Itoa(0 - n)
  ELSE IF n < 10 THEN <<DigitChars[n + 1]>>
  ELSE Itoa(n \div 10) \o <<DigitChars[(n % 10) + 1]>>

RECURSIVE DigitsVal(_)
DigitsVal(s) ==
  IF Len(s) = 0 THEN 0
  ELSE 10 * DigitsVal(SubSeq(s, 1, Len(s) - 1)) + DigitVal(s[Len(s)])

\* strconv.Atoi: optional sign, then one or more decimal digits
Atoi(s) ==
  LET signed == Len(s) > 0 /\ s[1] \in {"+", "-"}
      digits == IF signed THEN Tail(s) ELSE s
      bad == Len(digits) = 0 \/ \E j \in 1..Len(digits) : ~IsDigit(digits[j])
  IN IF bad THEN [err |-> TRUE, val |-> 0]
     ELSE [err |-> FALSE,
           val |-> IF signed /\ s[1] = "-" THEN 0 - DigitsVal(digits)
                   ELSE DigitsVal(digits)]

\* strings.Split(s, sep) for a one-character separator
RECURSIVE Split(_, _)
Split(s, sep) ==
  IF \A j \in 1..Len(s) : s[j] # sep THEN <<s>>
  ELSE LET j == CHOOSE j \in 1..Len(s) :
                   s[j] = sep /\ \A m \in 1..(j - 1) : s[m] # sep
       IN <<SubSeq(s, 1, j - 1)>> \o Split(SubSeq(s, j + 1, Len(s)), sep)

\* fmt.Sprintf("%d@%d", n, k)
SprintfMilestone(n, k) == Itoa(n) \o <<"@">> \o Itoa(k)

\* ------------------------------------------------------------- inputs
\* Request and client counts are 0 or more: with a negative request count
\* make(chan, n) panics before runTask does anything.
\* milestones that are not <integer>@<integer>: no "@", and a field that
\* is no integer on either side
MalformedMilestones ==
  { <<"1">>, <<"x", "@", "1">>, <<"1", "@", "x">> }

\* the lists of len well-formed milestones that ask for at most n requests
\* and k clients, all together.  Each milestone asks for a request or for a
\* client: the stage "0@0" is that of the default schedule with both
\* settings 0.
RECURSIVE WellFormedLists(_, _, _)
WellFormedLists(len, n, k) ==
  IF len = 0 THEN {<<>>}
  ELSE UNION {{<<SprintfMilestone(ab[1], ab[2])>> \o rest :
                  rest \in WellFormedLists(len - 1, n - ab[1], k - ab[2])} :
               ab \in ((0..n) \X (0..k)) \ {<<0, 0>>}}

\* the same, and the lists that end with a malformed milestone: main stops
\* at the first malformed milestone and never looks at what follows it
MilestoneLists(len, n, k) ==
  WellFormedLists(len, n, k)
  \cup {list \o <<m>> : list \in WellFormedLists(len - 1, n, k),
                        m \in MalformedMilestones}

\* strings.Join(list, sep)
RECURSIVE Join(_, _)
Join(list, sep) ==
  IF Len(list) = 0 THEN <<>>
  ELSE IF Len(list) = 1 THEN list[1]
  ELSE list[1] \o <<sep>> \o Join(Tail(list), sep)

\* the values of the -schedule flag: empty, or up to MaxStages milestones
ScheduleFlags ==
  {<<>>} \cup {Join(list, ",") :
                 list \in UNION {MilestoneLists(len, MaxReq, MaxClients) :
                                   len \in 1..MaxStages}}

\* the result of one HTTP call as fire sees it
CallResults ==
  [postErr : BOOLEAN, readErr : BOOLEAN, status : {200, 201, 500}]

\* a latency is a duration; the channel protocol never looks at its value
Latencies == {1}

NoBall == [gen |-> 0, stage |-> 0, seq |-> 0]
NoResponse == [Success |-> FALSE, Latency |-> 0, stage |-> 0, seq |-> 0]

VARIABLES
  schedule,    \* *schedule, a string
  task,        \* Task: NumRequests, NumClients, Noisy
  opt,         \* Options: Metrics
  pc,          \* position of the main goroutine
  milestones,  \* strings.Split(*schedule, ",")
  stage,       \* index of the milestone being run (1-based)
  pipeline,    \* pipeline[k]: buffer of the pipeline channel of stage k
  responses,   \* responses[k]: buffer of the responses channel of stage k
  closed,      \* closed[k]: the pipeline channel of stage k has been closed
  workers,     \* the cannonade goroutines, by <<stage, number>>
  r,           \* loop counter r of the enqueue loop of runTask
  rGather,     \* loop counter r of the receive loop of runTask
  c,           \* loop counter c of runTask
  cannonball,  \* local cannonball of runTask
  latencies,   \* local latencies of runTask
  numFails,    \* local numFails of runTask
  got,         \* the outcomes runTask has received in this stage, as a set
  genCount,    \* number of calls of makeCannonball so far
  stages,      \* per started stage: N, C, the channel operation counts,
               \* the calls of makeCannonball and the state of its clock
  reports,     \* the reports printed so far
  panicAt      \* where the process panicked, "" if it has not

vars == <<schedule, task, opt, pc, milestones, stage, pipeline, responses,
          closed, workers, r, rGather, c, cannonball, latencies, numFails,
          got, genCount, stages, reports, panicAt>>

Running == pc \notin {"panic", "exit"}

Init ==
  /\ schedule \in ScheduleFlags
  /\ task \in [NumRequests : 0..MaxReq, NumClients : 0..MaxClients,
               Noisy : BOOLEAN]
  /\ opt \in [Metrics : BOOLEAN]
  /\ pc = "flags"
  /\ milestones = <<>>
  /\ stage = 0
  /\ pipeline = <<>>
  /\ responses = <<>>
  /\ closed = <<>>
  /\ workers = <<>>
  /\ r = 0
  /\ rGather = 0
  /\ c = 0
  /\ cannonball = 0
  /\ latencies = <<>>
  /\ numFails = 0
  /\ got = {}
  /\ genCount = 0
  /\ stages = <<>>
  /\ reports = <<>>
  /\ panicAt = ""

\* ------------------------------------------------------------ main
\* main, lines 364-368: default schedule, split into milestones
MainSchedule ==
  /\ pc = "flags"
  /\ schedule' = IF schedule = <<>>
                 THEN SprintfMilestone(task.NumRequests, task.NumClients)
                 ELSE schedule
  /\ milestones' = Split(schedule', ",")
  /\ stage' = 1
  /\ pc' = "loop"
  /\ UNCHANGED <<task, opt, pipeline, responses, closed, workers, r, rGather,
                 c, cannonball, latencies, numFails, got, genCount, stages,
                 reports, panicAt>>

\* a loop body without line 375: the clients stay those of -num-clients
ParseMilestoneKeepsClients(m, t) ==
  LET fields == Split(m, "@")
      nr == Atoi(fields[1])
      nc == Atoi(fields[2])
  IN IF nr.err THEN [panic |-> TRUE, task |-> t]
     ELSE IF Len(fields) < 2
       THEN [panic |-> TRUE, task |-> [t EXCEPT !.NumRequests = nr.val]]
     ELSE IF nc.err
       THEN [panic |-> TRUE, task |-> [t EXCEPT !.NumRequests = nr.val]]
     ELSE [panic |-> FALSE, task |-> [t EXCEPT !.NumRequests = nr.val]]

\* main, lines 369-375: the two fields of a milestone; panics on a field
\* that is not an integer and on a missing second field
ParseMilestone(m, t) ==
  LET fields == Split(m, "@")
      nr == Atoi(fields[1])
      nc == Atoi(fields[2])
  IN IF nr.err THEN [panic |-> TRUE, task |-> t]
     ELSE IF Len(fields) < 2
       THEN [panic |-> TRUE, task |-> [t EXCEPT !.NumRequests = nr.val]]
     ELSE IF nc.err
       THEN [panic |-> TRUE, task |-> [t EXCEPT !.NumRequests = nr.val]]
     ELSE [panic |-> FALSE,
           task |-> [t EXCEPT !.NumRequests = nr.val, !.NumClients = nc.val]]

MainParse ==
  /\ pc = "loop"
  /\ LET p == ParseMilestone(milestones[stage], task)
     IN /\ ~p.panic
        /\ task' = p.task
  /\ pc' = "make"
  /\ UNCHANGED <<schedule, opt, milestones, stage, pipeline, responses,
                 closed, workers, r, rGather, c, cannonball, latencies,
                 numFails, got, genCount, stages, reports, panicAt>>

MainParsePanic ==
  /\ pc = "loop"
  /\ LET p == ParseMilestone(milestones[stage], task)
     IN /\ p.panic
        /\ task' = p.task
  /\ pc' = "panic"
  /\ panicAt' = "parse"
  /\ UNCHANGED <<schedule, opt, milestones, stage, pipeline, responses,
                 closed, workers, r, rGather, c, cannonball, latencies,
                 numFails, got, genCount, stages, reports>>

\* ------------------------------------------------------ printStats
\* A float64 of the report: a fraction num/den of milliseconds, +Inf or NaN.
NaN == [kind |-> "nan", num |-> 0, den |-> 1]
Inf == [kind |-> "inf", num |-> 0, den |-> 1]
Float(x) == [kind |-> "num", num |-> x, den |-> 1]

\* sum / float64(n) of line 215: NaN stays NaN, x/0 is +Inf, 0/0 is NaN
Quo(sum, n) ==
  IF sum.kind # "num" THEN sum
  ELSE IF n = 0 THEN (IF sum.num = 0 THEN NaN ELSE Inf)
  ELSE [kind |-> "num", num |-> sum.num, den |-> sum.den * n]

\* the sorted copy the stats package works on (insertion sort)
RECURSIVE Insert(_, _)
Insert(x, sorted) ==
  IF sorted = <<>> THEN <<x>>
  ELSE IF x <= Head(sorted) THEN <<x>> \o sorted
  ELSE <<Head(sorted)>> \o Insert(x, Tail(sorted))

RECURSIVE SortedCopy(_)
SortedCopy(input) ==
  IF input = <<>> THEN <<>>
  ELSE Insert(Head(input), SortedCopy(Tail(input)))

RECURSIVE SumOf(_)
SumOf(input) == IF input = <<>> THEN 0 ELSE Head(input) + SumOf(Tail(input))

\* the stats package returns (NaN, error) on an empty input
EmptyInputErr == [err |-> TRUE, val |-> NaN]

StatsMin(input) ==
  IF input = <<>> THEN EmptyInputErr
  ELSE [err |-> FALSE, val |-> Float(SortedCopy(input)[1])]

StatsMax(input) ==
  IF input = <<>> THEN EmptyInputErr
  ELSE [err |-> FALSE, val |-> Float(SortedCopy(input)[Len(input)])]

StatsSum(input) ==
  IF input = <<>> THEN EmptyInputErr
  ELSE [err |-> FALSE, val |-> Float(SumOf(input))]

\* stats.Mean of two values
Mean2(a, b) == [kind |-> "num", num |-> a + b, den |-> 2]

\* stats.Median: the middle value, or the mean of the two middle values
StatsMedian(input) ==
  LET cp == SortedCopy(input)
      l == Len(cp)
  IN IF l = 0 THEN EmptyInputErr
     ELSE IF l % 2 = 0
       THEN [err |-> FALSE, val |-> Mean2(cp[l \div 2], cp[(l \div 2) + 1])]
     ELSE [err |-> FALSE, val |-> Float(cp[(l \div 2) + 1])]

\* stats.Percentile: index = percent/100 * len; a whole index takes the
\* value at it, another index above 1 the mean of the values around it.
\* One value is its own percentile.  (percent * len is a whole number of
\* hundredths, so the index is whole iff 100 divides it.)
StatsPercentile(input, percent) ==
  LET cp == SortedCopy(input)
      l == Len(cp)
      i == (percent * l) \div 100
  IN IF l = 0 THEN EmptyInputErr
     ELSE IF l = 1 THEN [err |-> FALSE, val |-> Float(input[1])]
     ELSE IF percent <= 0 \/ percent > 100 THEN [err |-> TRUE, val |-> NaN]
     ELSE IF (percent * l) % 100 = 0
       THEN [err |-> FALSE, val |-> Float(cp[i])]
     ELSE IF percent * l > 100
       THEN [err |-> FALSE, val |-> Mean2(cp[i], cp[i + 1])]
     ELSE [err |-> TRUE, val |-> NaN]

\* a result that keeps the zero value when the call failed
OrZero(res) == IF res.err THEN Float(0) ELSE res.val

\* lines 198-201 (and 202-213, 235-238): the value, NaN when the call failed
OrNaN(res) == IF res.err THEN NaN ELSE res.val

\* strconv-style rounding of "%.0f": to the nearest integer, ties to even
RoundHalfEven(num, den) ==
  LET q == num \div den
      rem == num % den
  IN IF 2 * rem < den THEN q
     ELSE IF 2 * rem > den THEN q + 1
     ELSE IF q % 2 = 0 THEN q ELSE q + 1

RECURSIVE PadLeft(_, _)
PadLeft(width, text) ==
  IF Len(text) >= width THEN text ELSE PadLeft(width, <<" ">> \o text)

\* fmt.Sprintf("%<width>.0f", v)
Sprintf0f(width, v) ==
  PadLeft(width,
          IF v.kind = "nan" THEN <<"N", "a", "N">>
          ELSE IF v.kind = "inf" THEN <<"+", "I", "n", "f">>
          ELSE Itoa(RoundHalfEven(v.num, v.den)))

\* fmt.Sprintf("%<width>d", n)
Sprintfd(width, n) == PadLeft(width, Itoa(n))

\* the thresholds of a percentile table whose last column is 99%
pthresholdsShort == <<50, 80, 90, 95, 99, 99>>

\* line 231
pthresholds == <<50, 80, 90, 95, 99, 100>>

\* printStats, lines 197-248: the numbers of the two tables as printed.
\* The req/s column is left out: it is a quotient by the time a stage took,
\* and of the clock only the places of its two readings are modelled.
printStats(lats, numRequests, fails) ==
  LET min == OrNaN(StatsMin(lats))
      median == OrNaN(StatsMedian(lats))
      max == OrNaN(StatsMax(lats))
      sum == OrNaN(StatsSum(lats))
      avg == Quo(sum, numRequests)
  IN [reqs |-> Sprintfd(7, numRequests),
      fails |-> Sprintfd(10, fails),
      avg |-> Sprintf0f(8, avg),
      min |-> Sprintf0f(8, min),
      max |-> Sprintf0f(8, max),
      median |-> Sprintf0f(8, median),
      percentiles |->
        [j \in 1..Len(pthresholds) |->
           Sprintf0f(7, OrNaN(StatsPercentile(lats, pthresholds[j])))]]

\* --------------------------------------------------------- runTask
\* a receive loop that stops one outcome short
PcAfterGatherShort(n, N) == IF n + 1 < N THEN "gather" ELSE "report"

\* where runTask goes next: a for loop whose condition is false is skipped
PcAfterGather(n, N) == IF n < N THEN "gather" ELSE "report"

\* a runTask that returns once the workers are started, without receiving
PcAfterStartNoWait(k, N, C) == IF k < C THEN "start" ELSE "report"

\* a start loop that runs once too often
PcAfterStartOneMore(k, N, C) == IF k <= C THEN "start" ELSE PcAfterGather(0, N)

PcAfterStart(k, N, C) == IF k < C THEN "start" ELSE PcAfterGather(0, N)
PcAfterEnqueue(n, N, C) == IF n < N THEN "enqueue" ELSE PcAfterStart(0, N, C)

\* channels made without a buffer
ChanCapUnbuffered(n) == 0

\* lines 252-253: the capacity of both channels of a stage of n requests
ChanCap(n) == n

\* a payload made anew for every request, the first one too
FreshEvery(noisy, n) == noisy

\* line 261: the n-th iteration (from 0) makes a new cannonball
Fresh(noisy, n) == noisy /\ n > 0

\* a clock read before the payloads are made and enqueued
StartedEarly(n, N) == TRUE

\* line 271: the clock is read once the enqueue loop is over, n of N done
Started(n, N) == ~(n < N)

\* runTask, lines 252-259 (and the initial values of lines 284-285), and
\* line 271 when there is no request to enqueue
RunTaskMake ==
  /\ pc = "make"
  /\ pipeline' = Append(pipeline, <<>>)
  /\ responses' = Append(responses, <<>>)
  /\ closed' = Append(closed, FALSE)
  /\ genCount' = genCount + 1
  /\ cannonball' = genCount + 1
  /\ r' = 0
  /\ c' = 0
  /\ rGather' = 0
  /\ latencies' = <<>>
  /\ numFails' = 0
  /\ got' = {}
  /\ stages' = Append(stages,
       [N |-> task.NumRequests, C |-> task.NumClients,
        enq |-> 0, sent |-> 0, recv |-> 0, gen0 |-> genCount, gens |-> 1,
        timer |-> IF Started(0, task.NumRequests) THEN "running" ELSE "idle"])
  /\ pc' = PcAfterEnqueue(0, task.NumRequests, task.NumClients)
  /\ UNCHANGED <<schedule, task, opt, milestones, stage, workers, reports,
                 panicAt>>

\* runTask, lines 260-265: one iteration of the enqueue loop, and line 271
\* after the last one
RunTaskEnqueue ==
  /\ pc = "enqueue"
  /\ Len(pipeline[stage]) < ChanCap(task.NumRequests) \* a full channel blocks
  /\ LET fresh == Fresh(task.Noisy, r)
         ball == IF fresh THEN genCount + 1 ELSE cannonball
     IN /\ cannonball' = ball
        /\ genCount' = IF fresh THEN genCount + 1 ELSE genCount
        /\ pipeline' = [pipeline EXCEPT ![stage] =
               Append(@, [gen |-> ball, stage |-> stage, seq |-> r + 1])]
        /\ stages' = [stages EXCEPT
               ![stage].enq = @ + 1,
               ![stage].gens = IF fresh THEN @ + 1 ELSE @,
               ![stage].timer = IF Started(r + 1, task.NumRequests)
                                THEN "running" ELSE @]
  /\ r' = r + 1
  /\ pc' = PcAfterEnqueue(r + 1, task.NumRequests, task.NumClients)
  /\ UNCHANGED <<schedule, task, opt, milestones, stage, responses, closed,
                 workers, rGather, c, latencies, numFails, got, reports,
                 panicAt>>

\* a worker given the channels of the first stage, as if the channels were
\* made once for the whole schedule
NewWorkerFirstChannels(k) ==
  [pc |-> IF opt.Metrics THEN "open" ELSE "range", ch |-> 1,
   logger |-> FALSE, ball |-> NoBall, shots |-> 0, resp |-> NoResponse]

\* line 273: a goroutine with the channels of stage k, at its first line
NewWorker(k) ==
  [pc |-> IF opt.Metrics THEN "open" ELSE "range", ch |-> k,
   logger |-> FALSE, ball |-> NoBall, shots |-> 0, resp |-> NoResponse]

\* runTask, lines 272-274: one go statement.  With metrics off lines
\* 179-184 of cannonade do nothing and the worker starts at its loop.
RunTaskStart ==
  /\ pc = "start"
  /\ workers' = workers @@ (<<stage, c + 1>> :> NewWorker(stage))
  /\ c' = c + 1
  /\ pc' = PcAfterStart(c + 1, task.NumRequests, task.NumClients)
  /\ UNCHANGED <<schedule, task, opt, milestones, stage, pipeline, responses,
                 closed, r, rGather, cannonball, latencies, numFails, got,
                 genCount, stages, reports, panicAt>>

\* a receive loop that records the latency of every outcome, failed or not
RunTaskGatherEvery ==
  /\ pc = "gather"
  /\ Len(responses[stage]) > 0
  /\ LET response == Head(responses[stage])
     IN /\ latencies' = Append(latencies, response.Latency)
        /\ numFails' = IF response.Success THEN numFails ELSE numFails + 1
        /\ got' = got \cup {response}
  /\ responses' = [responses EXCEPT ![stage] = Tail(@)]
  /\ rGather' = rGather + 1
  /\ stages' = [stages EXCEPT ![stage].recv = @ + 1]
  /\ pc' = PcAfterGather(rGather + 1, task.NumRequests)
  /\ UNCHANGED <<schedule, task, opt, milestones, stage, pipeline, closed,
                 workers, r, c, cannonball, genCount, reports, panicAt>>

\* runTask, lines 286-301: one iteration of the receive loop
RunTaskGather ==
  /\ pc = "gather"
  /\ Len(responses[stage]) > 0                 \* an empty channel blocks
  /\ LET response == Head(responses[stage])
     IN /\ IF response.Success
           THEN /\ latencies' = Append(latencies, response.Latency)
                /\ numFails' = numFails
           ELSE /\ numFails' = numFails + 1
                /\ latencies' = latencies
        /\ got' = got \cup {response}
  /\ responses' = [responses EXCEPT ![stage] = Tail(@)]
  /\ rGather' = rGather + 1
  /\ stages' = [stages EXCEPT ![stage].recv = @ + 1]
  /\ pc' = PcAfterGather(rGather + 1, task.NumRequests)
  /\ UNCHANGED <<schedule, task, opt, milestones, stage, pipeline, closed,
                 workers, r, c, cannonball, genCount, reports, panicAt>>

\* runTask, lines 302-311 (the clock is read again at line 305), and the
\* loop of main, lines 368 and 378-379
RunTaskReport ==
  /\ pc = "report"
  /\ reports' = Append(reports,
        [numRequests |-> task.NumRequests, numClients |-> task.NumClients,
         numLatencies |-> Len(latencies), numFails |-> numFails,
         latencies |-> latencies,
         stats |-> printStats(latencies, task.NumRequests, numFails)])
  /\ stages' = [stages EXCEPT ![stage].timer = "stopped"]
  /\ stage' = stage + 1
  /\ pc' = IF stage + 1 > Len(milestones) THEN "exit" ELSE "loop"
  /\ UNCHANGED <<schedule, task, opt, milestones, pipeline, responses, closed,
                 workers, r, rGather, c, cannonball, latencies, numFails, got,
                 genCount, panicAt>>

\* ------------------------------------------------------- cannonade
\* a fire that takes every answered call for a success
fireAnyStatus(call) ==
  IF call.postErr
    THEN [Body |-> "Error while sending the request", Success |-> FALSE]
  ELSE IF call.readErr
    THEN [Body |-> "Error while parsing the response", Success |-> FALSE]
  ELSE [Body |-> "body", Success |-> TRUE]

\* fire, lines 151-174: the body and the success flag of one call
fire(call) ==
  IF call.postErr
    THEN [Body |-> "Error while sending the request", Success |-> FALSE]
  ELSE IF call.readErr
    THEN [Body |-> "Error while parsing the response", Success |-> FALSE]
  ELSE [Body |-> "body", Success |-> (call.status = 200)]

\* the outcomes os.OpenFile and logger.Output can have: done, or an error
SinkOutcomes == BOOLEAN

\* requests a worker has dequeued and whose outcome it has not sent
Holding(w) == workers[w].pc \in {"fire", "log", "send"}

\* cannonade, lines 179-184: metrics.log is opened, the logger made
WorkerOpen(w) ==
  /\ Running
  /\ w \in DOMAIN workers
  /\ workers[w].pc = "open"
  /\ TRUE \in SinkOutcomes
  /\ workers' = [workers EXCEPT ![w].logger = TRUE, ![w].pc = "range"]
  /\ UNCHANGED <<schedule, task, opt, pc, milestones, stage, pipeline,
                 responses, closed, r, rGather, c, cannonball, latencies,
                 numFails, got, genCount, stages, reports, panicAt>>

\* cannonade, lines 181-182: os.OpenFile fails, panicIf panics
WorkerOpenPanic(w) ==
  /\ Running
  /\ w \in DOMAIN workers
  /\ workers[w].pc = "open"
  /\ FALSE \in SinkOutcomes
  /\ pc' = "panic"
  /\ panicAt' = "open"
  /\ UNCHANGED <<schedule, task, opt, milestones, stage, pipeline, responses,
                 closed, workers, r, rGather, c, cannonball, latencies,
                 numFails, got, genCount, stages, reports>>

\* cannonade, line 186: the head of the range loop.  A cannonball in the
\* pipeline is received; on an empty pipeline the worker blocks, unless
\* the pipeline is closed, which ends the loop and the goroutine.
WorkerRange(w) ==
  /\ Running
  /\ w \in DOMAIN workers
  /\ workers[w].pc = "range"
  /\ IF Len(pipeline[workers[w].ch]) > 0
     THEN /\ workers' = [workers EXCEPT
                 ![w].ball = Head(pipeline[workers[w].ch]),
                 ![w].shots = 0,
                 ![w].pc = "fire"]
          /\ pipeline' = [pipeline EXCEPT ![workers[w].ch] = Tail(@)]
     ELSE /\ closed[workers[w].ch]
          /\ workers' = [workers EXCEPT ![w].pc = "done"]
          /\ pipeline' = pipeline
  /\ UNCHANGED <<schedule, task, opt, pc, milestones, stage, responses,
                 closed, r, rGather, c, cannonball, latencies, numFails, got,
                 genCount, stages, reports, panicAt>>

\* a worker that fires the same cannonball again when the call failed
WorkerFireRetry(w) ==
  /\ Running
  /\ w \in DOMAIN workers
  /\ workers[w].pc = "fire"
  /\ \E call \in CallResults, latency \in Latencies :
       LET res == fire(call)
       IN workers' = [workers EXCEPT
            ![w].resp = [Success |-> res.Success, Latency |-> latency,
                         stage |-> workers[w].ball.stage,
                         seq |-> workers[w].ball.seq],
            ![w].shots = @ + 1,
            ![w].pc = IF ~res.Success THEN "fire"
                      ELSE IF workers[w].logger THEN "log" ELSE "send"]
  /\ UNCHANGED <<schedule, task, opt, pc, milestones, stage, pipeline,
                 responses, closed, r, rGather, c, cannonball, latencies,
                 numFails, got, genCount, stages, reports, panicAt>>

\* a worker that goes on to the next cannonball when its call failed,
\* without an outcome for it
WorkerFireSkipFailed(w) ==
  /\ Running
  /\ w \in DOMAIN workers
  /\ workers[w].pc = "fire"
  /\ \E call \in CallResults, latency \in Latencies :
       LET res == fire(call)
       IN workers' = [workers EXCEPT
            ![w].resp = [Success |-> res.Success, Latency |-> latency,
                         stage |-> workers[w].ball.stage,
                         seq |-> workers[w].ball.seq],
            ![w].shots = @ + 1,
            ![w].pc = IF ~res.Success THEN "range"
                      ELSE IF workers[w].logger THEN "log" ELSE "send"]
  /\ UNCHANGED <<schedule, task, opt, pc, milestones, stage, pipeline,
                 responses, closed, r, rGather, c, cannonball, latencies,
                 numFails, got, genCount, stages, reports, panicAt>>

\* cannonade, lines 187-189: one call of fire and its latency
WorkerFire(w) ==
  /\ Running
  /\ w \in DOMAIN workers
  /\ workers[w].pc = "fire"
  /\ \E call \in CallResults, latency \in Latencies :
       LET res == fire(call)
       IN workers' = [workers EXCEPT
            ![w].resp = [Success |-> res.Success, Latency |-> latency,
                         stage |-> workers[w].ball.stage,
                         seq |-> workers[w].ball.seq],
            ![w].shots = @ + 1,
            ![w].pc = IF workers[w].logger THEN "log" ELSE "send"]
  /\ UNCHANGED <<schedule, task, opt, pc, milestones, stage, pipeline,
                 responses, closed, r, rGather, c, cannonball, latencies,
                 numFails, got, genCount, stages, reports, panicAt>>

\* cannonade, lines 190-192: the latency line is written
WorkerLog(w) ==
  /\ Running
  /\ w \in DOMAIN workers
  /\ workers[w].pc = "log"
  /\ TRUE \in SinkOutcomes
  /\ workers' = [workers EXCEPT ![w].pc = "send"]
  /\ UNCHANGED <<schedule, task, opt, pc, milestones, stage, pipeline,
                 responses, closed, r, rGather, c, cannonball, latencies,
                 numFails, got, genCount, stages, reports, panicAt>>

\* cannonade, line 191: logger.Output fails, panicIf panics
WorkerLogPanic(w) ==
  /\ Running
  /\ w \in DOMAIN workers
  /\ workers[w].pc = "log"
  /\ FALSE \in SinkOutcomes
  /\ pc' = "panic"
  /\ panicAt' = "log"
  /\ UNCHANGED <<schedule, task, opt, milestones, stage, pipeline, responses,
                 closed, workers, r, rGather, c, cannonball, latencies,
                 numFails, got, genCount, stages, reports>>

\* cannonade, line 193: send the outcome, back to the head of the loop
WorkerSend(w) ==
  /\ Running
  /\ w \in DOMAIN workers
  /\ workers[w].pc = "send"
  /\ Len(responses[workers[w].ch]) < ChanCap(stages[workers[w].ch].N)
  /\ responses' = [responses EXCEPT
       ![workers[w].ch] = Append(@, workers[w].resp)]
  /\ workers' = [workers EXCEPT ![w].ball = NoBall, ![w].resp = NoResponse,
                                ![w].pc = "range"]
  /\ stages' = [stages EXCEPT ![workers[w].ch].sent = @ + 1]
  /\ UNCHANGED <<schedule, task, opt, pc, milestones, stage, pipeline, closed,
                 r, rGather, c, cannonball, latencies, numFails, got,
                 genCount, reports, panicAt>>

\* the goroutines a schedule can start
WorkerIds == (1..MaxStages) \X (1..MaxClients)

Worker(w) ==
  \/ WorkerOpen(w)
  \/ WorkerOpenPanic(w)
  \/ WorkerRange(w)
  \/ WorkerFire(w)
  \/ WorkerLog(w)
  \/ WorkerLogPanic(w)
  \/ WorkerSend(w)

Next ==
  \/ MainSchedule
  \/ MainParse
  \/ MainParsePanic
  \/ RunTaskMake
  \/ RunTaskEnqueue
  \/ RunTaskStart
  \/ RunTaskGather
  \/ RunTaskReport
  \/ \E w \in WorkerIds : Worker(w)

Spec == Init /\ [][Next]_vars

\* the main goroutine
Main ==
  \/ MainSchedule
  \/ MainParse
  \/ MainParsePanic
  \/ RunTaskMake
  \/ RunTaskEnqueue
  \/ RunTaskStart
  \/ RunTaskGather
  \/ RunTaskReport

\* the Go scheduler runs every goroutine that can take a step
FairSpec ==
  /\ Init
  /\ [][Next]_vars
  /\ WF_vars(Main)
  /\ \A w \in WorkerIds : WF_vars(Worker(w))

\* ------------------------------------------- printStats on its own
\* the latencies a stage can collect: any durations, in any order
SampleLists == UNION {[1..n -> 1..MaxLatency] : n \in 0..MaxSamples}

\* runTask at line 302 of the one stage of a schedule "N@1": the receive
\* loop has collected some list of latencies and counted some failures
StatsInit ==
  /\ latencies \in SampleLists
  /\ numFails \in 0..MaxFails
  /\ task = [NumRequests |-> Len(latencies) + numFails, NumClients |-> 1,
             Noisy |-> FALSE]
  /\ opt = [Metrics |-> FALSE]
  /\ schedule = SprintfMilestone(task.NumRequests, 1)
  /\ milestones = <<schedule>>
  /\ pc = "report"
  /\ stage = 1
  /\ pipeline = << <<>> >>
  /\ responses = << <<>> >>
  /\ closed = <<FALSE>>
  /\ workers = (<<1, 1>> :> NewWorker(1))
  /\ r = task.NumRequests
  /\ rGather = task.NumRequests
  /\ c = 1
  /\ cannonball = 1
  /\ got = {[Success |-> j <= Len(latencies),
             Latency |-> IF j <= Len(latencies) THEN latencies[j] ELSE 1,
             stage |-> 1, seq |-> j] : j \in 1..task.NumRequests}
  /\ genCount = 1
  /\ stages = <<[N |-> task.NumRequests, C |-> 1, enq |-> task.NumRequests,
                 sent |-> task.NumRequests, recv |-> task.NumRequests,
                 gen0 |-> 0, gens |-> 1, timer |-> "running"]>>
  /\ reports = <<>>
  /\ panicAt = ""

StatsNext == RunTaskReport

StatsSpec == StatsInit /\ [][StatsNext]_vars

\* ------------------------------------------------------- properties
\* runTask of stage k has passed its receive loop: it has returned, or its
\* three loops have run to their ends
StageDone(k) ==
  /\ k <= Len(stages)
  /\ \/ stage > k
     \/ /\ stage = k
        /\ r = stages[k].N
        /\ c = stages[k].C \/ stages[k].C <= 0
        /\ rGather = stages[k].N

\* the requests of stage k that a worker has dequeued and not yet answered
InFlight(k) ==
  Cardinality({w \in DOMAIN workers : Holding(w) /\ workers[w].ball.stage = k})

Min(a, b) == IF a < b THEN a ELSE b

\* the requests the outcomes of a set belong to
Requests(outcomes) == {<<o.stage, o.seq>> : o \in outcomes}

CountSuccess(outcomes, flag) ==
  Cardinality({o \in outcomes : o.Success = flag})

\* the elements of a sequence
Range(seq) == {seq[j] : j \in 1..Len(seq)}

\* C1: after the receive loop of a stage with N requests, exactly N payloads
\* have been enqueued, exactly N outcomes sent and exactly N received, each
\* request's outcome once, and none is left in the responses channel.
C1_ExactlyNOutcomes ==
  /\ \A k \in 1..Len(stages) :
       StageDone(k) =>
         /\ stages[k].enq = stages[k].N
         /\ stages[k].sent = stages[k].N
         /\ stages[k].recv = stages[k].N
         /\ responses[k] = <<>>
  /\ pc = "report" =>
       /\ stages[stage].N = task.NumRequests
       /\ Cardinality(got) = task.NumRequests
       /\ Requests(got) = {stage} \X (1..task.NumRequests)

\* a stage with more clients than requests, then one with two requests for
\* one client, one call failed and one succeeded
C1_Witness ==
  /\ pc = "report"
  /\ stage = 2
  /\ stages[1].C > stages[1].N
  /\ stages[2].N = 2
  /\ stages[2].C <= stages[2].N
  /\ numFails = 1

\* C2: latencies holds one entry for each received outcome with Success and
\* numFails counts the others, so at the end of a stage with N requests
\* len(latencies) = N - numFails.
C2_LatenciesPlusFails ==
  /\ Len(latencies) = CountSuccess(got, TRUE)
  /\ numFails = CountSuccess(got, FALSE)
  /\ pc = "report" => Len(latencies) = task.NumRequests - numFails
  /\ \A j \in 1..Len(reports) :
       reports[j].numLatencies = reports[j].numRequests - reports[j].numFails

C2_Witness ==
  /\ pc = "report"
  /\ task.NumRequests = 2
  /\ numFails = 1
  /\ Len(latencies) = 1

\* stage k is over: all its outcomes are received and nothing of it is left
\* in a channel or in the hands of a worker
StageQuiet(k) ==
  /\ stages[k].recv = stages[k].N
  /\ stages[k].sent = stages[k].N
  /\ InFlight(k) = 0
  /\ pipeline[k] = <<>>
  /\ responses[k] = <<>>

\* C3: the stages run in the order of the schedule and never overlap: stage
\* k+1 has no channel, payload or worker before all outcomes of stage k are
\* received, and then no request of stage k is in flight.
C3_StagesInOrder ==
  /\ Len(stages) <= stage
  /\ \A k \in 1..Len(stages) :
       /\ k < Len(stages) => StageQuiet(k)
       /\ milestones[k] = SprintfMilestone(stages[k].N, stages[k].C)
       /\ \A j \in 1..Len(pipeline[k]) : pipeline[k][j].stage = k
  /\ \A w \in DOMAIN workers : w[1] <= Len(stages)

C3_Witness ==
  /\ Len(stages) = 2
  /\ stages[1].N >= 1
  /\ stages[2].enq >= 1
  /\ <<2, 1>> \in DOMAIN workers

\* C4: the pipeline of a stage is closed once populated, and when the stage
\* is complete every worker of it has left its receive loop.
C4_QueueClosedWorkersExit ==
  \A k \in 1..Len(stages) :
    /\ (stages[k].enq = stages[k].N /\ (stage > k \/ pc # "enqueue"))
         => closed[k]
    /\ StageDone(k) =>
         \A w \in DOMAIN workers : workers[w].ch = k => workers[w].pc = "done"

\* C5: the requests of a stage in flight are at most C and at most
\* min(C, N); the workers of earlier stages hold none.
C5_InFlightBounded ==
  /\ \A k \in 1..Len(stages) :
       /\ InFlight(k) <= stages[k].C
       /\ InFlight(k) <= Min(stages[k].C, stages[k].N)
  /\ \A w \in DOMAIN workers : w[1] < stage => ~Holding(w)
  /\ Len(stages) >= 1 =>
       Cardinality({w \in DOMAIN workers : Holding(w)}) <= stages[Len(stages)].C

\* the second stage keeps its one client busy while a request waits and the
\* worker of the first stage is still there
C5_Witness ==
  /\ Len(stages) = 2
  /\ <<1, 1>> \in DOMAIN workers
  /\ stages[2].C = 1
  /\ InFlight(2) = 1
  /\ Len(pipeline[2]) = 1

\* C6: every stage with C >= 1 that has started eventually completes.
C6_EveryStageCompletes ==
  \A k \in 1..MaxStages :
    (Len(stages) >= k /\ stages[k].C >= 1) ~> StageDone(k)

\* what holds instead: such a stage completes unless the process panics on
\* the metrics sink
C6_CompletesUnlessSinkFails ==
  \A k \in 1..MaxStages :
    (Len(stages) >= k /\ stages[k].C >= 1)
      ~> (StageDone(k) \/ panicAt \in {"open", "log"})

\* the outcomes of stage k on record: sent and not yet received, and (for
\* the running stage) received
Outcomes(k) ==
  Range(responses[k]) \cup (IF k = stage THEN got ELSE {})

\* a transport error or timeout, a response-read error, a status other than 200
FailedCall(call) == call.postErr \/ call.readErr \/ call.status # 200

\* C7: a failed call is not retried and does not stop the worker: a worker
\* fires each cannonball once, holds the one outcome of that call, failed or
\* not, and never leaves its loop; the stage receives its N outcomes, all of
\* them failed when every call fails.
C7_FailedCallNoRetryNoStop ==
  /\ \A w \in DOMAIN workers :
       /\ workers[w].pc # "done"
       /\ workers[w].pc = "fire" => workers[w].shots = 0
       /\ workers[w].pc \in {"log", "send"} =>
            /\ workers[w].shots = 1
            /\ workers[w].resp.stage = workers[w].ball.stage
            /\ workers[w].resp.seq = workers[w].ball.seq
  /\ \A k \in 1..Len(stages) :
       /\ Cardinality(Requests(Outcomes(k))) =
            Len(responses[k]) + (IF k = stage THEN stages[k].recv ELSE 0)
       /\ stages[k].sent + InFlight(k) + Len(pipeline[k]) = stages[k].enq
  /\ pc = "report" =>
       /\ stages[stage].recv = task.NumRequests
       /\ numFails = CountSuccess(got, FALSE)
  /\ \A call \in CallResults : FailedCall(call) => ~fire(call).Success

\* one worker, two requests, both calls failed: the worker went on
C7_Witness ==
  /\ pc = "report"
  /\ task.NumRequests = 2
  /\ task.NumClients = 1
  /\ numFails = 2
  /\ Cardinality(got) = 2

\* C8: a fault inside a worker that is processing a dequeued payload does
\* not end the pool and loses no outcome: when the write of a latency line
\* has failed, no dequeued payload is left without its outcome.
C8_FaultStillEmitsOutcome ==
  panicAt = "log" =>
    \A k \in 1..Len(stages) :
      /\ InFlight(k) = 0
      /\ stages[k].sent + Len(pipeline[k]) = stages[k].enq

\* a milestone of the form <integer>@<integer>
WellFormedMilestone(m) ==
  LET fields == Split(m, "@")
  IN /\ Len(fields) = 2
     /\ ~Atoi(fields[1]).err
     /\ ~Atoi(fields[2]).err

\* C9: a schedule with a malformed milestone, wherever it stands, runs no
\* stage: no payload is enqueued and no worker started.
C9_MalformedScheduleRunsNoStage ==
  (pc # "flags" /\ \E j \in 1..Len(milestones) :
                     ~WellFormedMilestone(milestones[j]))
    => /\ \A k \in 1..Len(stages) : stages[k].enq = 0
       /\ DOMAIN workers = {}

\* C10: when the metrics sink cannot be opened the run ends before any
\* payload of any stage is enqueued.
C10_SinkFailureBeforeAnyStage ==
  panicAt = "open" =>
    \A k \in 1..Len(stages) : stages[k].enq = 0

\* C11: the Success flag of an outcome is true iff the POST returned without
\* transport error or timeout, the body was read without error and the
\* status is 200; a worker holds no outcome with any other flag.
C11_SuccessIffAnswered200 ==
  /\ \A call \in CallResults :
       fire(call).Success
         <=> (~call.postErr /\ ~call.readErr /\ call.status = 200)
  /\ \A w \in DOMAIN workers :
       workers[w].pc \in {"log", "send"} =>
         \E call \in CallResults :
           /\ workers[w].resp.Success = fire(call).Success
           /\ workers[w].resp.Success
                <=> (~call.postErr /\ ~call.readErr /\ call.status = 200)

\* one call of a stage has succeeded and is received, the outcome of a failed
\* one is about to be sent
C11_Witness ==
  /\ \E o \in got : o.Success
  /\ \E w \in DOMAIN workers :
       workers[w].pc = "send" /\ ~workers[w].resp.Success

\* a printed number without the padding of its column
RECURSIVE Trim(_)
Trim(text) ==
  IF text # <<>> /\ Head(text) = " " THEN Trim(Tail(text)) ELSE text

\* the text printed for not-a-number
IsNaNText(text) == Trim(text) = <<"N", "a", "N">>

\* C12: the mean printed for a stage is the sum of the latencies handed to
\* printStats divided by their number, whatever the number of failures.
C12_MeanIsArithmeticMean ==
  \A j \in 1..Len(reports) :
    reports[j].latencies # <<>> =>
      reports[j].stats.avg =
        Sprintf0f(8, [kind |-> "num", num |-> SumOf(reports[j].latencies),
                      den |-> Len(reports[j].latencies)])

\* C13: with no latency (all requests failed, or none asked for) printStats
\* prints NaN for min, median, max, mean and the six percentiles, and the
\* request and failure counts as they are.
C13_EmptyLatenciesPrintNaN ==
  \A j \in 1..Len(reports) :
    reports[j].latencies = <<>> =>
      LET st == reports[j].stats
      IN /\ IsNaNText(st.min)
         /\ IsNaNText(st.median)
         /\ IsNaNText(st.max)
         /\ IsNaNText(st.avg)
         /\ Len(st.percentiles) = 6
         /\ \A q \in 1..Len(st.percentiles) : IsNaNText(st.percentiles[q])
         /\ Atoi(Trim(st.reqs)) = [err |-> FALSE, val |-> stages[j].N]
         /\ Atoi(Trim(st.fails)) = [err |-> FALSE, val |-> reports[j].numFails]
         /\ reports[j].numFails = stages[j].N

\* the report of a stage of two requests that both failed
C13_Witness ==
  /\ Len(reports) = 1
  /\ reports[1].latencies = <<>>
  /\ reports[1].numRequests = 2
  /\ reports[1].numFails = 2
  /\ IsNaNText(reports[1].stats.avg)

\* C14: for a non-empty list of latencies the 100% column shows the same
\* number as the Max column, the largest latency of the list.
C14_LastPercentileIsMax ==
  \A j \in 1..Len(reports) :
    reports[j].latencies # <<>> =>
      LET st == reports[j].stats
          lats == reports[j].latencies
      IN /\ Trim(st.percentiles[6]) = Trim(st.max)
         /\ ~Atoi(Trim(st.max)).err
         /\ \A q \in 1..Len(lats) : lats[q] <= Atoi(Trim(st.max)).val
         /\ \E q \in 1..Len(lats) : lats[q] = Atoi(Trim(st.max)).val

\* three latencies, unsorted and with a tie below the largest
C14_Witness ==
  /\ Len(reports) = 1
  /\ reports[1].latencies = <<1, 3, 1>>
  /\ Trim(reports[1].stats.max) = <<"3">>

\* the two numbers of a milestone "<n>@<k>", read digit by digit
MilestoneNumbers(m) ==
  LET at == CHOOSE j \in 1..Len(m) : m[j] = "@"
  IN <<DigitsVal(SubSeq(m, 1, at - 1)), DigitsVal(SubSeq(m, at + 1, Len(m)))>>

\* the stages run so far are the first entries of the list, in its order,
\* each with the numbers of its entry; at the return of main every entry
\* has had its stage and its report
StagesFollowMilestones ==
  /\ Len(stages) <= Len(milestones)
  /\ Len(reports) <= Len(stages)
  /\ \A k \in 1..Len(stages) :
       <<stages[k].N, stages[k].C>> = MilestoneNumbers(milestones[k])
  /\ \A k \in 1..Len(reports) :
       <<reports[k].numRequests, reports[k].numClients>>
         = MilestoneNumbers(milestones[k])
  /\ pc = "exit" => Len(reports) = Len(milestones)

\* what main makes of the flags: without -schedule one milestone with the
\* values of -num-requests and -num-clients, with -schedule its entries
MilestonesFollowFlags ==
  pc = "flags" /\ pc' # "flags" =>
    IF schedule = <<>>
    THEN /\ Len(milestones') = 1
         /\ MilestoneNumbers(milestones'[1])
              = <<task.NumRequests, task.NumClients>>
    ELSE Join(milestones', ",") = schedule

\* C15: without a schedule exactly one stage runs, with the global request
\* and client counts; with a schedule one stage runs per entry, in the order
\* of the list and with the entry's counts, whatever the global counts are.
C15_DefaultAndGivenSchedule ==
  /\ []StagesFollowMilestones
  /\ [][MilestonesFollowFlags]_vars
  /\ [][pc # "flags" => milestones' = milestones]_vars

\* a schedule of two entries has run to the end, its second stage with two
\* requests and the first with none
C15_Witness ==
  /\ pc = "exit"
  /\ Len(reports) = 2
  /\ reports[1].numRequests = 0
  /\ reports[2].numRequests = 2
  /\ reports[2].numClients = 1

\* C16: no send on a channel of a stage blocks: neither channel ever holds
\* more than N, the enqueue loop can always send, a worker with an outcome
\* can always send it, and a stage has workers only once all N payloads are
\* enqueued.
C16_NoSendBlocks ==
  /\ \A k \in 1..Len(stages) :
       /\ Len(pipeline[k]) <= stages[k].N
       /\ Len(responses[k]) <= stages[k].N
       /\ (\E w \in DOMAIN workers : w[1] = k) => stages[k].enq = stages[k].N
  /\ pc = "enqueue" => ENABLED RunTaskEnqueue
  /\ \A w \in DOMAIN workers :
       (Running /\ workers[w].pc = "send") => ENABLED WorkerSend(w)

\* a worker is about to send the second outcome of a stage while the first
\* is still in the responses channel
C16_Witness ==
  /\ pc = "gather"
  /\ stages[stage].N = 2
  /\ Len(responses[stage]) = 1
  /\ rGather = 0
  /\ \E w \in DOMAIN workers : workers[w].pc = "send"

\* the payloads of stage k some worker has dequeued so far
Dequeued(k) == stages[k].sent + InFlight(k)

\* C17: the interval timed for a stage begins after all N payloads are made
\* and enqueued and before any worker of the stage has dequeued one, and
\* ends after the N-th outcome is received: no payload is made inside it,
\* and no request of the stage starts before it or ends after it.
C17_ClockAroundRequests ==
  \A k \in 1..Len(stages) :
    /\ stages[k].timer = "idle" =>
         /\ Dequeued(k) = 0
         /\ \A w \in DOMAIN workers : w[1] # k
         /\ stage = k /\ pc \in {"enqueue", "panic"}
    /\ stages[k].timer = "running" =>
         /\ stages[k].enq = stages[k].N
         /\ Len(pipeline[k]) + Dequeued(k) = stages[k].N
         /\ stage = k /\ r = stages[k].N
         /\ pc \notin {"make", "enqueue"}
         /\ genCount = stages[k].gen0 + stages[k].gens
    /\ stages[k].timer = "stopped" =>
         /\ stages[k].recv = stages[k].N
         /\ stages[k].sent = stages[k].N
         /\ InFlight(k) = 0
         /\ stage > k
    /\ InFlight(k) > 0 => stages[k].timer = "running"

\* the clock of the second stage runs, one of its requests is in flight and
\* one waits in the pipeline; the clock of the first stage has stopped
C17_Witness ==
  /\ Len(stages) = 2
  /\ stages[1].timer = "stopped"
  /\ stages[2].timer = "running"
  /\ InFlight(2) = 1
  /\ Len(pipeline[2]) = 1

\* the cannonballs of stage k that exist: in its pipeline or held by a worker
Balls(k) ==
  Range(pipeline[k])
    \cup {workers[w].ball : w \in {v \in DOMAIN workers :
                                     Holding(v) /\ workers[v].ball.stage = k}}

\* C18: without Noisy makeCannonball is called once per stage and its one
\* result is enqueued N times; with Noisy and N >= 1 it is called N times
\* and the i-th payload enqueued is the result of the i-th call.
C18_PayloadGeneration ==
  \A k \in 1..Len(stages) :
    /\ stages[k].gens =
         (IF task.Noisy /\ stages[k].enq >= 1 THEN stages[k].enq ELSE 1)
    /\ stages[k].timer # "idle" =>
         stages[k].gens =
           (IF task.Noisy /\ stages[k].N >= 1 THEN stages[k].N ELSE 1)
    /\ k = Len(stages) => genCount = stages[k].gen0 + stages[k].gens
    /\ \A j \in 1..Len(pipeline[k]) : pipeline[k][j].seq = Dequeued(k) + j
    /\ \A ball \in Balls(k) :
         /\ ball.seq \in 1..stages[k].enq
         /\ ball.gen =
              stages[k].gen0 + (IF task.Noisy THEN ball.seq ELSE 1)

\* a noisy stage of two requests: two calls, two different payloads enqueued
C18_Witness ==
  /\ task.Noisy
  /\ Len(stages) = 2
  /\ stages[2].timer = "running"
  /\ stages[2].gens = 2
  /\ Len(pipeline[2]) = 2
  /\ pipeline[2][1].gen # pipeline[2][2].gen

\* C19: from the end of the enqueue loop of a stage on, the payloads in its
\* pipeline, those a worker holds, the outcomes in its responses channel
\* and the outcomes received add up to N; the latencies collected and the
\* failures counted add up to the outcomes received.
C19_Conservation ==
  /\ \A k \in 1..Len(stages) :
       stages[k].timer # "idle" =>
         Len(pipeline[k]) + InFlight(k) + Len(responses[k])
           + (IF k = stage THEN rGather ELSE stages[k].recv) = stages[k].N
  /\ (stage >= 1 /\ Len(stages) = stage) =>
       /\ Len(latencies) + numFails = rGather
       /\ rGather = stages[stage].recv
       /\ rGather = Cardinality(got)

\* of two requests one is with a worker and one has failed and is received
C19_Witness ==
  /\ pc = "gather"
  /\ stages[stage].N = 2
  /\ Len(pipeline[stage]) = 0
  /\ InFlight(stage) = 1
  /\ Len(responses[stage]) = 0
  /\ rGather = 1
  /\ numFails = 1

\* C20: the stages share no channel: a worker started by stage k has the
\* channels of stage k, holds payloads and outcomes of stage k only, and the
\* outcomes in the responses channel of stage k and those counted for its
\* report are outcomes of its own N payloads; a stage has at most C workers.
C20_StageIsolation ==
  /\ \A w \in DOMAIN workers :
       /\ workers[w].ch = w[1]
       /\ w[2] \in 1..stages[w[1]].C
       /\ Holding(w) => workers[w].ball.stage = w[1]
       /\ workers[w].pc \in {"log", "send"} => workers[w].resp.stage = w[1]
  /\ \A k \in 1..Len(stages) :
       /\ \A j \in 1..Len(pipeline[k]) : pipeline[k][j].stage = k
       /\ \A j \in 1..Len(responses[k]) :
            /\ responses[k][j].stage = k
            /\ responses[k][j].seq \in 1..stages[k].N
  /\ (stage >= 1 /\ Len(stages) = stage) =>
       \A o \in got : o.stage = stage /\ o.seq \in 1..stages[stage].N

\* the second stage has received an outcome and another is in its responses
\* channel, while the worker of the first stage still waits at its pipeline
C20_Witness ==
  /\ Len(stages) = 2
  /\ <<1, 1>> \in DOMAIN workers
  /\ workers[<<1, 1>>].pc = "range"
  /\ <<2, 1>> \in DOMAIN workers
  /\ Cardinality(got) = 1
  /\ Len(responses[2]) = 1

\* stage k has no client and at least one request
Starved(k) == stages[k].C <= 0 /\ stages[k].N >= 1

\* a stage without a client and with a request does not get past its first
\* receive: its N payloads stay in the pipeline, it has no worker, nothing
\* is received or reported, and no later stage starts
StarvedStageBlocks ==
  \A k \in 1..Len(stages) :
    Starved(k) =>
      /\ stage = k
      /\ Len(stages) = k
      /\ Len(reports) < k
      /\ ~StageDone(k)
      /\ \A w \in DOMAIN workers : w[1] # k
      /\ Dequeued(k) = 0
      /\ stages[k].recv = 0
      /\ responses[k] = <<>>
      /\ pc \in {"enqueue", "gather", "panic"}
      /\ pc = "gather" =>
           /\ Len(pipeline[k]) = stages[k].N
           /\ rGather = 0
           /\ ~ENABLED RunTaskGather

\* a stage without a request sends none
EmptyStageSendsNothing ==
  \A k \in 1..Len(stages) :
    stages[k].N = 0 =>
      /\ stages[k].enq = 0
      /\ Dequeued(k) = 0
      /\ pipeline[k] = <<>>
      /\ responses[k] = <<>>

\* C21: a stage with C <= 0 and N >= 1 never completes: its payloads are
\* enqueued, no worker is started, the runner waits at its first receive,
\* there is no report of it and no later stage; a stage with N = 0 sends no
\* request and completes, whatever C is.
C21_StarvedBlocksEmptyCompletes ==
  /\ []StarvedStageBlocks
  /\ []EmptyStageSendsNothing
  /\ \A k \in 1..MaxStages :
       (Len(stages) >= k /\ stages[k].N = 0) ~> StageDone(k)

\* what holds of a stage with N = 0: it completes unless the process panics
\* on the metrics sink first
C21_EmptyCompletesUnlessSinkFails ==
  \A k \in 1..MaxStages :
    (Len(stages) >= k /\ stages[k].N = 0)
      ~> (StageDone(k) \/ panicAt \in {"open", "log"})

\* the runner waits at the first receive of the second stage, "2@0"
C21_StarvedReached ==
  /\ Len(stages) = 2
  /\ Starved(2)
  /\ stages[2].N = 2
  /\ pc = "gather"
  /\ Len(pipeline[2]) = 2
====
